---- MODULE Spec2Model ----
(***************************************************************************)
(* Ticket inventory, purchase, redemption, promo-code and wallet-login     *)
(* logic of the MobiTickets backend, as a state machine over the           *)
(* relational store (Prisma on MariaDB, default isolation) and the Redis   *)
(* nonce store.  Every await of a handler is one step; the store's         *)
(* statements are atomic, a handler's sequence of statements is not.       *)
(***************************************************************************)
EXTENDS Integers, FiniteSets, Sequences, TLC

\* ------------------------------------------------------------------ bounds
NumCalls == 2        \* concurrent purchaseTickets calls
NumScans == 2        \* concurrent validateTicket calls
MaxTps == 1          \* TicketPurchase rows of the order
NumCheckouts == 2    \* concurrent checkouts using the promo code
MaxCap == 2          \* largest maxRedemptions of the flash sale
NumLogins == 2       \* concurrent walletLogin calls
TickStep == 300      \* seconds the clock advances in one step
MaxTime == 600       \* the clock stops here
MaxTotal == 2        \* totalQuantity of the category
MaxQty == 2          \* largest quantity a call asks for
MaxPrice == 2        \* largest category price
NumRefunders == 1    \* concurrent requestRefund calls
NumReviews == 2      \* concurrent reviewRefundRequest calls
NumTransfers == 1    \* concurrent transferTicket calls
NumGateScans == 1    \* validateTicket calls concurrent with the transfers
NumRefreshes == 2    \* concurrent refreshAccessToken calls
MaxIdLen == 1        \* longest id given to generateTicketQR on its own

Calls == 1..NumCalls
Scans == 1..NumScans
Checkouts == 1..NumCheckouts
Logins == 1..NumLogins
Times == {s \in 0..MaxTime : s % TickStep = 0}
T1 == <<"T", "1">>     \* the id of the one row of table tickets, as its characters
TX == <<"T", "X">>     \* an id with no row
NoTicketId == <<>>     \* the empty string
TicketIds == {T1}
RequestTicketIds == {T1, TX}

VARIABLES
  \* ---- the store: committed rows
  ticket,           \* the tickets row T1 (see TicketRow)
  orders,           \* table orders
  orderItems,       \* table order_items
  ticketPurchases,  \* table ticket_purchases
  auditLog,         \* table audit_logs
  rowLock,          \* the transactions holding the write lock of row T1 (one at most)
  \* ---- the queues
  emailJobs,        \* jobs added to emailQueue
  nftJobs,          \* number of 'mint-nft' jobs added to nftQueue (each { ticketId, userAddress })
  \* ---- purchaseTickets calls
  pc,               \* position of each call
  req,              \* its arguments: userId, ticketId, quantity (cleared by a rollback)
  snap,             \* its local `ticket` (findUnique's result)
  tx,               \* its transaction's uncommitted writes
  qrCode,           \* the data URL generateTicketQR returned to it
  result,           \* what it returned or threw
  overlapped,       \* history: calls that were in flight together with another
  available0,       \* history: availableQuantity before the first call
  \* ---- validateTicket calls
  vpc,              \* position of each call
  vreq,             \* its argument qrData
  vsnap,            \* its local `ticketPurchase` (findFirst's result)
  vresult,          \* what it returned or threw
  \* ---- the clock (seconds)
  now,
  \* ---- flash sale and checkouts (validatePromoCode, then redeemFlashSale)
  flashSale,        \* the flash_sales row of promo code P1
  kpc,              \* position of each checkout
  kreq,             \* its arguments: promoCode, ticketCategory
  kresult,          \* what validatePromoCode returned or threw
  capEdited,        \* history: updateFlashSale has changed maxRedemptions
  \* ---- wallet login
  nonceStore,       \* Redis: expiry time of key wallet_nonce:<nonce>, 0 if absent
  wpc,              \* position of each walletLogin call
  wreq,             \* its arguments: nonce, timestamp, message, signature
  wnow,             \* its local currentTimestamp
  wresult,          \* what it returned or threw
  \* ---- payment, refund and transfer of the order the gate validates
  transaction,      \* status of the order's transactions row, "none" if it has none
  refundRequests,   \* table refund_requests
  fpc,              \* position of each requestRefund call
  freq,             \* its arguments: orderId, userId
  fresult,          \* what it returned or threw
  rpc,              \* position of each reviewRefundRequest call
  rreq,             \* its arguments: requestId, status
  rsnap,            \* its local `refundReq` (findUnique's result)
  rresult,          \* what it returned or threw
  tpc,              \* position of each transferTicket call
  treq,             \* its arguments: ticketPurchaseId, userId, recipientEmail
  trecipient,       \* its local `recipient` (the user's id)
  tresult,          \* what it returned or threw
  \* ---- generateTicketQR called on its own, and the gate's parse of its QR
  cpc,              \* position: idle, generated, scanned, parsed
  cids,             \* the ticketId and orderId generateTicketQR was given
  cqr,              \* the data URL it returned
  cdata,            \* qrData as the gate's scanner read it
  cparsed,          \* what validateTicket's parse made of it
  \* ---- refreshAccessToken calls
  refreshTokens,    \* table refresh_tokens: token, expiresAt, revoked
  xpc,              \* position of each call
  xtoken,           \* its argument refreshToken
  xresult           \* what it returned or threw

storeVars == <<ticket, orders, orderItems, ticketPurchases, auditLog, rowLock>>
queueVars == <<emailJobs, nftJobs>>
callVars == <<pc, req, snap, tx, qrCode, result, overlapped, available0>>
validateVars == <<vpc, vreq, vsnap, vresult>>

promoVars == <<flashSale, kpc, kreq, kresult, capEdited>>
walletVars == <<nonceStore, wpc, wreq, wnow, wresult>>
refundVars == <<transaction, refundRequests, fpc, freq, fresult, rpc, rreq, rsnap, rresult>>
transferVars == <<tpc, treq, trecipient, tresult>>
codecVars == <<cpc, cids, cqr, cdata, cparsed>>
rotationVars == <<refreshTokens, xpc, xtoken, xresult>>

vars == <<storeVars, queueVars, callVars, validateVars, now, promoVars, walletVars,
          refundVars, transferVars, codecVars, rotationVars>>

\* ------------------------------------------------------ the credential codec
NoIds == [ticketId |-> NoTicketId, orderId |-> <<>>]
NoDataUrl == [mime |-> "", encodes |-> <<>>]
NoParsed == [error |-> "", ticketId |-> NoTicketId, orderId |-> <<>>]
\* Strings are sequences of characters.
Quote == "\""
Backslash == "\\"
IdChars == {"a", Quote, Backslash}     \* the characters ids are drawn from

RECURSIVE StringsUpTo(_)
StringsUpTo(n) ==
  IF n = 0 THEN {<<>>}
  ELSE LET shorter == StringsUpTo(n - 1)
       IN  shorter \cup {Append(s, c) : s \in {x \in shorter : Len(x) = n - 1}, c \in IdChars}
IdTexts == StringsUpTo(MaxIdLen) \ {<<>>}

\* The model numbers the orders; an order's id, as text, is that number.
DigitChars == <<"0", "1", "2", "3", "4", "5", "6", "7", "8", "9">>
RECURSIVE Decimal(_)
Decimal(n) ==
  IF n < Len(DigitChars) THEN <<DigitChars[n + 1]>>
  ELSE Append(Decimal(n \div Len(DigitChars)), DigitChars[(n % Len(DigitChars)) + 1])

\* new Date().toISOString(): digits and the separators of the format
ToISOString(t) == <<"T">> \o Decimal(t) \o <<":", "0", "Z">>

\* Mutant of EscapeChar: the backslash is written as it is.
EscapeCharQuoteOnly(c) == IF c = Quote THEN <<Backslash, Quote>> ELSE <<c>>

\* JSON.stringify of a string: the quote and the backslash are escaped
EscapeChar(c) ==
  IF c = Quote THEN <<Backslash, Quote>>
  ELSE IF c = Backslash THEN <<Backslash, Backslash>>
  ELSE <<c>>
RECURSIVE JsonEscape(_)
JsonEscape(s) == IF s = <<>> THEN <<>> ELSE EscapeChar(Head(s)) \o JsonEscape(Tail(s))
JsonString(s) == <<Quote>> \o JsonEscape(s) \o <<Quote>>

KeyTicketId == <<"t", "i", "c", "k", "e", "t", "I", "d">>
KeyOrderId == <<"o", "r", "d", "e", "r", "I", "d">>
KeyTimestamp == <<"t", "i", "m", "e", "s", "t", "a", "m", "p">>

\* JSON.stringify(payload), payload = { ticketId, orderId, timestamp }
JsonStringify(payload) ==
  <<"{">> \o JsonString(KeyTicketId) \o <<":">> \o JsonString(payload.ticketId)
  \o <<",">> \o JsonString(KeyOrderId) \o <<":">> \o JsonString(payload.orderId)
  \o <<",">> \o JsonString(KeyTimestamp) \o <<":">> \o JsonString(payload.timestamp)
  \o <<"}">>

\* QRCode.toDataURL(qrData, ..): a PNG of the QR symbol that encodes qrData;
\* a scanner reads qrData back from the symbol.
ToDataURL(qrData) == [mime |-> "image/png", encodes |-> qrData]
ScanQR(dataUrl) == dataUrl.encodes

\* generateTicketQR(ticketId, orderId) at time t: the data URL it returns
GenerateTicketQR(ticketId, orderId, t) ==
  ToDataURL(JsonStringify([ticketId |-> ticketId, orderId |-> orderId,
                           timestamp |-> ToISOString(t)]))

\* JSON.parse.  A string literal from position i (after its opening quote).
JsonFail == [ok |-> FALSE, value |-> <<>>, next |-> 0, members |-> <<>>]
RECURSIVE ReadString(_, _, _)
ReadString(text, i, acc) ==
  IF i > Len(text) THEN JsonFail
  ELSE IF text[i] = Quote THEN [JsonFail EXCEPT !.ok = TRUE, !.value = acc, !.next = i + 1]
  ELSE IF text[i] = Backslash
    THEN IF i + 1 > Len(text) \/ text[i + 1] \notin {Quote, Backslash}
           THEN JsonFail
           ELSE ReadString(text, i + 2, Append(acc, text[i + 1]))
  ELSE ReadString(text, i + 1, Append(acc, text[i]))

\* The members of an object from position i: "key":"value" separated by commas,
\* closed by the brace that ends the text.
RECURSIVE ReadMembers(_, _, _)
ReadMembers(text, i, members) ==
  LET k == IF i <= Len(text) /\ text[i] = Quote THEN ReadString(text, i + 1, <<>>) ELSE JsonFail
  IN  IF ~k.ok \/ k.next + 1 > Len(text) \/ text[k.next] # ":" \/ text[k.next + 1] # Quote
        THEN JsonFail
      ELSE LET v == ReadString(text, k.next + 2, <<>>)
           IN  IF ~v.ok \/ v.next > Len(text) THEN JsonFail
               ELSE LET m == Append(members, [key |-> k.value, value |-> v.value])
                    IN  IF text[v.next] = "," THEN ReadMembers(text, v.next + 1, m)
                        ELSE IF text[v.next] = "}" /\ v.next = Len(text)
                          THEN [JsonFail EXCEPT !.ok = TRUE, !.members = m]
                        ELSE JsonFail

\* JSON.parse(text): an object of string members, or a string (no members)
JsonParse(text) ==
  IF text = <<>> THEN JsonFail
  ELSE IF text[1] = "{"
    THEN IF text = <<"{", "}">> THEN [JsonFail EXCEPT !.ok = TRUE]
         ELSE ReadMembers(text, 2, <<>>)
  ELSE IF text[1] = Quote
    THEN LET s == ReadString(text, 2, <<>>)
         IN  IF s.ok /\ s.next = Len(text) + 1 THEN [JsonFail EXCEPT !.ok = TRUE] ELSE JsonFail
  ELSE JsonFail

\* parsed[key]: the value of the last member of that name; a missing member
\* (undefined) and '' are both falsy, and both are <<>> here
Property(members, key) ==
  LET at == {j \in 1..Len(members) : members[j].key = key}
  IN  IF at = {} THEN <<>>
      ELSE members[CHOOSE j \in at : \A l \in at : l <= j].value

\* validateTicket: JSON.parse(qrData) in try/catch, then
\* if (!parsed.ticketId || !parsed.orderId)
ParseQrData(qrData) ==
  LET r == JsonParse(qrData)
      ticketId == Property(r.members, KeyTicketId)
      orderId == Property(r.members, KeyOrderId)
  IN  IF ~r.ok THEN [NoParsed EXCEPT !.error = "Invalid QR data format"]
      ELSE IF ticketId = <<>> \/ orderId = <<>>
        THEN [NoParsed EXCEPT !.error = "QR data missing required fields"]
      ELSE [error |-> "none", ticketId |-> ticketId, orderId |-> orderId]

\* what no step of purchaseTickets touches
notPurchase == <<validateVars, now, promoVars, walletVars, refundVars, transferVars,
                 codecVars, rotationVars>>

\* ---------------------------------------------------------------- purchase
NoReq == [userId |-> "", ticketId |-> NoTicketId, quantity |-> 0]
NoSnap == [availableQuantity |-> 0, price |-> 0]
EmptyTx == [decrement |-> 0, orders |-> {}, items |-> {}]
NoOrder == NumCalls - NumCalls   \* no order has this id
NoQrData == [json |-> FALSE, ticketId |-> NoTicketId, orderId |-> NoOrder]

InTx == {"decrement", "createOrder", "createItem", "qr", "findUser", "nft", "audit", "commit"}

\* tx.ticket.findUnique({ where: { id } }): the committed row, or none
FindTicket(ticketId) == IF ticketId \in TicketIds THEN {ticket} ELSE {}

\* Mutant of Insufficient: the comparison off by one.
InsufficientOffByOne(found, quantity) ==
  \/ found = {}
  \/ \E t \in found : t.availableQuantity + 1 < quantity

\* if (!ticket || ticket.availableQuantity < quantity)
Insufficient(found, quantity) ==
  \/ found = {}
  \/ \E t \in found : t.availableQuantity < quantity

\* The order id a call's order.create is given (a fresh uuid: one per call).
NewOrderId(p) == p

\* Columns maxPerPurchase, salesStartTime, salesEndTime of table tickets; the
\* two times are NULL (NoTime) when the category has no sales window.
NoTime == -1
OpenLimits == [maxPerPurchase |-> MaxQty, salesStartTime |-> NoTime, salesEndTime |-> NoTime]
SalesLimits ==
  {[maxPerPurchase |-> m, salesStartTime |-> w[1], salesEndTime |-> w[2]] :
     m \in 1..MaxQty, w \in {<<NoTime, NoTime>>, <<TickStep, MaxTime>>}}

\* a row of table tickets
TicketRow(avail, price, limits) ==
  [totalQuantity |-> MaxTotal, availableQuantity |-> avail, price |-> price,
   maxPerPurchase |-> limits.maxPerPurchase,
   salesStartTime |-> limits.salesStartTime, salesEndTime |-> limits.salesEndTime]

InitStoreWith(limits) ==
  /\ \E avail \in 0..MaxTotal, price \in 1..MaxPrice, lim \in limits :
       /\ ticket = TicketRow(avail, price, lim)
       /\ available0 = avail
  /\ orders = {}
  /\ orderItems = {}
  /\ ticketPurchases = {}
  /\ auditLog = {}
  /\ rowLock = {}
  /\ emailJobs = {}
  /\ nftJobs = 0

InitStore == InitStoreWith({OpenLimits})

InitCalls ==
  /\ pc = [p \in Calls |-> "idle"]
  /\ req = [p \in Calls |-> NoReq]
  /\ snap = [p \in Calls |-> NoSnap]
  /\ tx = [p \in Calls |-> EmptyTx]
  /\ qrCode = [p \in Calls |-> NoDataUrl]
  /\ result = [p \in Calls |-> "none"]
  /\ overlapped = {}

InitScans ==
  /\ vpc = [c \in Scans |-> "idle"]
  /\ vreq = [c \in Scans |-> NoQrData]
  /\ vsnap = [c \in Scans |-> {}]
  /\ vresult = [c \in Scans |-> "none"]

NoCap == 0     \* maxRedemptions null: no cap
Categories == {"REGULAR", "VIP"}
NoPromoReq == [promoCode |-> "", ticketCategory |-> ""]

InitCheckouts ==
  /\ kpc = [k \in Checkouts |-> "idle"]
  /\ kreq = [k \in Checkouts |-> NoPromoReq]
  /\ kresult = [k \in Checkouts |-> "none"]
  /\ capEdited = FALSE

Nonces == {"n1", "n2"}
NoLoginReq == [nonce |-> "", timestamp |-> 0, messageOk |-> FALSE, signatureOk |-> FALSE]

InitLogins ==
  /\ nonceStore = [n \in Nonces |-> 0]
  /\ wpc = [l \in Logins |-> "idle"]
  /\ wreq = [l \in Logins |-> NoLoginReq]
  /\ wnow = [l \in Logins |-> 0]
  /\ wresult = [l \in Logins |-> "none"]

\* a flash sale nobody uses
\* refund and transfer: nothing called yet, no refund request, no payment
Refunders == 1..NumRefunders
Reviews == 1..NumReviews
Transfers == 1..NumTransfers
GateScans == 1..NumGateScans
NoRefundReq == [orderId |-> NoOrder, userId |-> ""]
NoReviewReq == [requestId |-> NoOrder, status |-> ""]
NoTransferReq == [ticketPurchaseId |-> NoOrder, userId |-> "", recipientEmail |-> ""]
InitRefundCalls ==
  /\ refundRequests = {}
  /\ fpc = [f \in Refunders |-> "idle"]
  /\ freq = [f \in Refunders |-> NoRefundReq]
  /\ fresult = [f \in Refunders |-> "none"]
  /\ rpc = [r \in Reviews |-> "idle"]
  /\ rreq = [r \in Reviews |-> NoReviewReq]
  /\ rsnap = [r \in Reviews |-> {}]
  /\ rresult = [r \in Reviews |-> "none"]

InitTransfers ==
  /\ tpc = [x \in Transfers |-> "idle"]
  /\ treq = [x \in Transfers |-> NoTransferReq]
  /\ trecipient = [x \in Transfers |-> ""]
  /\ tresult = [x \in Transfers |-> "none"]

\* generateTicketQR not called on its own yet
Refreshes == 1..NumRefreshes
NoToken == 0            \* no row has this token
IssuedToken == 1        \* the refresh token a login issued
\* a refresh token lives 7 days: longer than any behaviour here
RefreshTokenTtl == MaxTime + TickStep
\* one token, issued by a login, that expires within the behaviours here
InitRotation ==
  /\ refreshTokens = {[token |-> IssuedToken, expiresAt |-> TickStep, revoked |-> FALSE]}
  /\ xpc = [x \in Refreshes |-> "idle"]
  /\ xtoken = [x \in Refreshes |-> NoToken]
  /\ xresult = [x \in Refreshes |-> "none"]

InitCodecIdle ==
  /\ InitRotation
  /\ cpc = "idle"
  /\ cids = NoIds
  /\ cqr = NoDataUrl
  /\ cdata = <<>>
  /\ cparsed = NoParsed

InitNoLifecycle == transaction = "none" /\ InitRefundCalls /\ InitTransfers /\ InitCodecIdle

InitNoPromo ==
  /\ flashSale = [isActive |-> FALSE, startTime |-> 0, endTime |-> 0,
                  maxRedemptions |-> NoCap, currentRedemptions |-> 0,
                  ticketCategories |-> {}]
  /\ InitCheckouts

InitPurchase ==
  InitStore /\ InitCalls /\ InitScans /\ now = 0 /\ InitNoPromo /\ InitLogins /\ InitNoLifecycle

\* prisma.$transaction opens; findUnique reads the row; the availability check.
PurchaseRead(p) ==
  /\ pc[p] = "idle"
  /\ \E u \in {"u1"}, tid \in RequestTicketIds, q \in 1..MaxQty :
       LET found == FindTicket(tid)
           running == {c \in Calls : pc[c] \in InTx}
       IN  /\ req' = [req EXCEPT ![p] = [userId |-> u, ticketId |-> tid, quantity |-> q]]
           /\ overlapped' = IF running = {} THEN overlapped ELSE overlapped \cup running \cup {p}
           /\ IF Insufficient(found, q)
                THEN /\ pc' = [pc EXCEPT ![p] = "failed"]
                     /\ result' = [result EXCEPT ![p] = "Insufficient tickets available"]
                     /\ snap' = snap
                ELSE /\ pc' = [pc EXCEPT ![p] = "decrement"]
                     /\ result' = result
                     /\ snap' = [snap EXCEPT ![p] =
                          [availableQuantity |-> ticket.availableQuantity, price |-> ticket.price]]
  /\ UNCHANGED <<ticket, orders, orderItems, ticketPurchases, auditLog, rowLock,
                 emailJobs, nftJobs, tx, qrCode, available0, notPurchase>>

\* Mutant of PurchaseDecrement: the decrement is one unit whatever the quantity.
PurchaseDecrementByOne(p) ==
  /\ pc[p] = "decrement"
  /\ rowLock = {}
  /\ rowLock' = {p}
  /\ tx' = [tx EXCEPT ![p].decrement = 1]
  /\ pc' = [pc EXCEPT ![p] = "createOrder"]
  /\ UNCHANGED <<ticket, orders, orderItems, ticketPurchases, auditLog,
                 emailJobs, nftJobs, req, snap, qrCode, result, overlapped, available0, notPurchase>>

\* tx.ticket.update({ data: { availableQuantity: { decrement: quantity } } }):
\* UPDATE .. SET availableQuantity = availableQuantity - q, under the row's write
\* lock, which the transaction keeps until it commits or rolls back.
PurchaseDecrement(p) ==
  /\ pc[p] = "decrement"
  /\ rowLock = {}
  /\ rowLock' = {p}
  /\ tx' = [tx EXCEPT ![p].decrement = req[p].quantity]
  /\ pc' = [pc EXCEPT ![p] = "createOrder"]
  /\ UNCHANGED <<ticket, orders, orderItems, ticketPurchases, auditLog,
                 emailJobs, nftJobs, req, snap, qrCode, result, overlapped, available0, notPurchase>>

\* Mutant of PurchaseCreateOrder: totalAmount forgets the quantity.
PurchaseCreateOrderUnitPrice(p) ==
  /\ pc[p] = "createOrder"
  /\ tx' = [tx EXCEPT ![p].orders =
              {[id |-> NewOrderId(p), userId |-> req[p].userId,
                totalAmount |-> snap[p].price, status |-> "PENDING"]}]
  /\ pc' = [pc EXCEPT ![p] = "createItem"]
  /\ UNCHANGED <<ticket, orders, orderItems, ticketPurchases, auditLog, rowLock,
                 emailJobs, nftJobs, req, snap, qrCode, result, overlapped, available0, notPurchase>>

\* tx.order.create
PurchaseCreateOrder(p) ==
  /\ pc[p] = "createOrder"
  /\ tx' = [tx EXCEPT ![p].orders =
              {[id |-> NewOrderId(p), userId |-> req[p].userId,
                totalAmount |-> snap[p].price * req[p].quantity, status |-> "PENDING"]}]
  /\ pc' = [pc EXCEPT ![p] = "createItem"]
  /\ UNCHANGED <<ticket, orders, orderItems, ticketPurchases, auditLog, rowLock,
                 emailJobs, nftJobs, req, snap, qrCode, result, overlapped, available0, notPurchase>>

\* tx.orderItem.create
PurchaseCreateItem(p) ==
  /\ pc[p] = "createItem"
  /\ tx' = [tx EXCEPT ![p].items =
              {[orderId |-> NewOrderId(p), ticketId |-> req[p].ticketId,
                quantity |-> req[p].quantity, priceAtTime |-> snap[p].price]}]
  /\ pc' = [pc EXCEPT ![p] = "qr"]
  /\ UNCHANGED <<ticket, orders, orderItems, ticketPurchases, auditLog, rowLock,
                 emailJobs, nftJobs, req, snap, qrCode, result, overlapped, available0, notPurchase>>

\* logAudit(action, entity, entityId, ..): prisma.auditLog.create on the global
\* client (its own transaction), in a try/catch that swallows a failure.  An
\* entry is its action, its entity and the entity's id (a ticket's or an order's).
LogAudit(entry, ok) == auditLog' = IF ok THEN auditLog \cup {entry} ELSE auditLog

\* generateTicketQR(ticketId, order.id): the data URL, and logAudit('QR_GENERATED')
PurchaseGenerateQR(p) ==
  /\ pc[p] = "qr"
  /\ qrCode' = [qrCode EXCEPT ![p] =
                   GenerateTicketQR(req[p].ticketId, Decimal(NewOrderId(p)), now)]
  /\ \E ok \in BOOLEAN :
       LogAudit([action |-> "QR_GENERATED", entity |-> "Ticket", ticketId |-> req[p].ticketId,
                 orderId |-> NoOrder], ok)
  /\ pc' = [pc EXCEPT ![p] = "findUser"]
  /\ UNCHANGED <<ticket, orders, orderItems, ticketPurchases, rowLock,
                 emailJobs, nftJobs, req, snap, tx, result, overlapped, available0, notPurchase>>

\* tx.user.findUnique, and emailQueue.add('send-confirmation') if (user).  The
\* user row exists: order.create has passed orders_userId_fkey in this transaction.
PurchaseEmail(p) ==
  /\ pc[p] = "findUser"
  /\ emailJobs' = emailJobs \cup {[orderId |-> NewOrderId(p)]}
  /\ pc' = [pc EXCEPT ![p] = "nft"]
  /\ UNCHANGED <<ticket, orders, orderItems, ticketPurchases, auditLog, rowLock,
                 nftJobs, req, snap, tx, qrCode, result, overlapped, available0, notPurchase>>

\* nftQueue.add('mint-nft')
PurchaseNft(p) ==
  /\ pc[p] = "nft"
  /\ nftJobs' = nftJobs + 1
  /\ pc' = [pc EXCEPT ![p] = "audit"]
  /\ UNCHANGED <<ticket, orders, orderItems, ticketPurchases, auditLog, rowLock,
                 emailJobs, req, snap, tx, qrCode, result, overlapped, available0, notPurchase>>

\* logAudit('TICKET_PURCHASED', 'Order', order.id, ..)
PurchaseAudit(p) ==
  /\ pc[p] = "audit"
  /\ \E ok \in BOOLEAN :
       LogAudit([action |-> "TICKET_PURCHASED", entity |-> "Order", ticketId |-> NoTicketId,
                 orderId |-> NewOrderId(p)], ok)
  /\ pc' = [pc EXCEPT ![p] = "commit"]
  /\ UNCHANGED <<ticket, orders, orderItems, ticketPurchases, rowLock,
                 emailJobs, nftJobs, req, snap, tx, qrCode, result, overlapped, available0, notPurchase>>

\* What a commit makes of the transaction's writes.
CommitWrites(p) ==
  /\ ticket' = [ticket EXCEPT !.availableQuantity = @ - tx[p].decrement]
  /\ orders' = orders \cup tx[p].orders
  /\ orderItems' = orderItems \cup tx[p].items

\* Mutant of RollbackWrites: the decrement survives the rollback.
RollbackKeepsDecrement(p) ==
  /\ ticket' = [ticket EXCEPT !.availableQuantity = @ - tx[p].decrement]
  /\ UNCHANGED <<orders, orderItems>>

\* What a rollback makes of them.
RollbackWrites(p) ==
  UNCHANGED <<ticket, orders, orderItems>>

\* return { order, qrCode }: the callback resolves and prisma.$transaction commits.
PurchaseCommit(p) ==
  /\ pc[p] = "commit"
  /\ CommitWrites(p)
  /\ rowLock' = {}
  /\ tx' = [tx EXCEPT ![p] = EmptyTx]
  /\ pc' = [pc EXCEPT ![p] = "done"]
  /\ result' = [result EXCEPT ![p] = "ok"]
  /\ snap' = [snap EXCEPT ![p] = NoSnap]
  /\ UNCHANGED <<ticketPurchases, auditLog, emailJobs, nftJobs, req, qrCode, overlapped, available0, notPurchase>>

\* A statement or an awaited call inside the callback throws (the store or a
\* queue is unreachable, the transaction's timeout expires): the error leaves
\* the callback and prisma.$transaction rolls back.  The call's arguments and
\* locals are gone with it; what it enqueued and logged stays.
PurchaseAbort(p) ==
  /\ pc[p] \in InTx
  /\ RollbackWrites(p)
  /\ rowLock' = rowLock \ {p}
  /\ tx' = [tx EXCEPT ![p] = EmptyTx]
  /\ pc' = [pc EXCEPT ![p] = "failed"]
  /\ result' = [result EXCEPT ![p] = "error"]
  /\ req' = [req EXCEPT ![p] = NoReq]
  /\ snap' = [snap EXCEPT ![p] = NoSnap]
  /\ qrCode' = [qrCode EXCEPT ![p] = NoDataUrl]
  /\ UNCHANGED <<ticketPurchases, auditLog, emailJobs, nftJobs, overlapped, available0, notPurchase>>

\* emailQueue.add or nftQueue.add rejects (the queue's Redis is unreachable):
\* both are awaited inside the callback with no try/catch, so the error leaves
\* the callback like any other and prisma.$transaction rolls back.
QueueError == "queue error"
PurchaseEnqueueFails(p) ==
  /\ pc[p] \in {"findUser", "nft"}
  /\ RollbackWrites(p)
  /\ rowLock' = rowLock \ {p}
  /\ tx' = [tx EXCEPT ![p] = EmptyTx]
  /\ pc' = [pc EXCEPT ![p] = "failed"]
  /\ result' = [result EXCEPT ![p] = QueueError]
  /\ req' = [req EXCEPT ![p] = NoReq]
  /\ snap' = [snap EXCEPT ![p] = NoSnap]
  /\ qrCode' = [qrCode EXCEPT ![p] = NoDataUrl]
  /\ UNCHANGED <<ticketPurchases, auditLog, emailJobs, nftJobs, overlapped, available0, notPurchase>>

NextPurchase ==
  \E p \in Calls :
    \/ PurchaseRead(p)
    \/ PurchaseDecrement(p)
    \/ PurchaseCreateOrder(p)
    \/ PurchaseCreateItem(p)
    \/ PurchaseGenerateQR(p)
    \/ PurchaseEmail(p)
    \/ PurchaseNft(p)
    \/ PurchaseAudit(p)
    \/ PurchaseCommit(p)
    \/ PurchaseAbort(p)
    \/ PurchaseEnqueueFails(p)

SpecPurchase == InitPurchase /\ [][NextPurchase]_vars

\* purchaseTickets on a category with a purchase limit and a sales window
InitPrecond ==
  /\ InitStoreWith(SalesLimits)
  /\ InitCalls /\ InitScans /\ now = 0 /\ InitNoPromo /\ InitLogins /\ InitNoLifecycle
SpecPrecond == InitPrecond /\ [][NextPurchase]_vars
\* ------------------------------------------------------- purchase: claims
Finished(p) == pc[p] \in {"done", "failed"}
InsufficientError == "Insufficient tickets available"
Committed(orderId) == \E o \in orders : o.id = orderId
ItemsOf(orderId) == {i \in orderItems : i.orderId = orderId}

\* C1: in every reachable state the category satisfies
\* 0 <= availableQuantity <= totalQuantity.
C1_InventoryBounds ==
  /\ 0 <= ticket.availableQuantity
  /\ ticket.availableQuantity <= ticket.totalQuantity

\* C2: with availableQuantity = K and N > K calls that each ask for 1, once all
\* calls have ended (none by a store or queue failure) exactly K have succeeded,
\* N-K have failed with the insufficient-inventory error and availableQuantity is 0.
C2_ExactlyKSucceed ==
  ( /\ \A p \in Calls : Finished(p) /\ req[p].ticketId \in TicketIds /\ req[p].quantity = 1
    /\ \A p \in Calls : result[p] \in {"ok", InsufficientError}
    /\ NumCalls > available0 )
  => /\ Cardinality({p \in Calls : result[p] = "ok"}) = available0
     /\ Cardinality({p \in Calls : result[p] = InsufficientError}) = NumCalls - available0
     /\ ticket.availableQuantity = 0

\* C6: a purchase commits all of its store writes or none.  No step shows a
\* part of a purchase: a step that changes the availability, the orders or the
\* order items adds one Order, its one OrderItem and takes that item's quantity
\* from availableQuantity, all three at once; a step in which a call fails
\* changes none of them; and every Order has its OrderItem, every OrderItem its Order.
C6_StepAtomic ==
  /\ (ticket' # ticket \/ orders' # orders \/ orderItems' # orderItems) =>
       /\ orders \subseteq orders' /\ orderItems \subseteq orderItems'
       /\ Cardinality(orders' \ orders) = 1
       /\ Cardinality(orderItems' \ orderItems) = 1
       /\ \A o \in orders' \ orders, i \in orderItems' \ orderItems :
            /\ i.orderId = o.id
            /\ i.quantity >= 1
            /\ ticket' = [ticket EXCEPT !.availableQuantity = @ - i.quantity]
  /\ \A p \in Calls :
       (pc[p] # "failed" /\ pc'[p] = "failed") =>
          UNCHANGED <<ticket, orders, orderItems>>

C6_NoOrphan ==
  /\ \A o \in orders : Cardinality(ItemsOf(o.id)) = 1
  /\ \A i \in orderItems : Committed(i.orderId)

C6_AllOrNothing == []C6_NoOrphan /\ [][C6_StepAtomic]_vars

\* C6 witness: one call has committed and another was rolled back after its
\* decrement, its order and its order item were written.
C6_Witness ==
  \E p, c \in Calls :
    /\ result[p] = "ok"
    /\ result[c] = "error" /\ \E j \in emailJobs : j.orderId = NewOrderId(c)

\* C7: a call whose quantity exceeds the category's availableQuantity fails with
\* the insufficient-inventory error, leaves availableQuantity unchanged and
\* creates no Order and no OrderItem, then or later.
C7_Step ==
  \A p \in Calls :
    ( /\ pc[p] = "idle" /\ pc'[p] # "idle"
      /\ req'[p].ticketId \in TicketIds
      /\ req'[p].quantity > ticket.availableQuantity )
    => /\ pc'[p] = "failed"
       /\ result'[p] = InsufficientError
       /\ UNCHANGED <<ticket, orders, orderItems>>

C7_NoOrderAfter ==
  \A p \in Calls :
    result[p] = InsufficientError =>
      /\ pc[p] = "failed"
      /\ ~Committed(NewOrderId(p))
      /\ ItemsOf(NewOrderId(p)) = {}
      /\ tx[p] = EmptyTx

C7_InsufficientRejected == []C7_NoOrderAfter /\ [][C7_Step]_vars

\* C7 witness (Scenario B): availableQuantity is 1 and a call for 2 has failed
\* with the insufficient-inventory error.
C7_Witness ==
  \E p \in Calls :
    /\ result[p] = InsufficientError
    /\ req[p].ticketId \in TicketIds /\ req[p].quantity = 2
    /\ ticket.availableQuantity = 1 /\ available0 = 1

\* C8: a call with quantity q that runs alone (no other call in flight between
\* its read and its commit) and commits takes exactly q from the
\* availableQuantity it read and creates exactly one Order, PENDING, with
\* totalAmount = price * q, and exactly one OrderItem of that order, with quantity q.
C8_Step ==
  \A p \in Calls :
    (pc[p] = "commit" /\ pc'[p] = "done" /\ p \notin overlapped) =>
      /\ ticket'.availableQuantity = snap[p].availableQuantity - req[p].quantity
      /\ orders \subseteq orders' /\ orderItems \subseteq orderItems'
      /\ Cardinality(orders' \ orders) = 1
      /\ Cardinality(orderItems' \ orderItems) = 1
      /\ \A o \in orders' \ orders, i \in orderItems' \ orderItems :
           /\ o.status = "PENDING"
           /\ o.totalAmount = ticket.price * req[p].quantity
           /\ i.orderId = o.id
           /\ i.ticketId = req[p].ticketId
           /\ i.quantity = req[p].quantity

C8_PurchaseAlone == [][C8_Step]_vars

\* C8 witness: a call for 2 that ran alone has committed.
C8_Witness ==
  \E p \in Calls :
    /\ result[p] = "ok" /\ p \notin overlapped
    /\ req[p].quantity = 2
    /\ Committed(NewOrderId(p))

\* C9: every committed order has a TicketPurchase row in status ACTIVE with
\* its orderId and the ticketId of its item.
C9_TicketPurchaseCreated ==
  \A i \in orderItems :
    \E tp \in ticketPurchases :
      tp.orderId = i.orderId /\ tp.ticketId = i.ticketId /\ tp.status = "ACTIVE"

\* C10: the email job, the NFT-mint job and the TICKET_PURCHASED audit entry of
\* an order exist only once the order is committed, and no call is at the QR
\* generation or at one of these external calls with its transaction open.
C10_SideEffectsAfterCommit ==
  /\ \A j \in emailJobs : Committed(j.orderId)
  /\ nftJobs <= Cardinality(orders)
  /\ \A a \in auditLog : a.action = "TICKET_PURCHASED" => Committed(a.orderId)
  /\ \A p \in Calls :
       pc[p] \in {"qr", "findUser", "nft", "audit"} => (tx[p] = EmptyTx /\ p \notin rowLock)

\* C11: a purchase whose inventory check passed and whose store writes succeeded
\* is never failed by a side effect: no call ends with the error of a queue
\* whose enqueue failed.
C11_SideEffectFailureIgnored ==
  \A p \in Calls : result[p] # QueueError


\* ------------------------------------------------- purchase and price change
\* updateEvent(eventId, userId, userRole, data): the PUT /events/:id route hands
\* the request body, unvalidated, to prisma.event.update as its data; through
\* the event's `tickets` relation that statement can write a category's price.
\* It is the one statement of the program that can.  As an UPDATE of the
\* tickets row it waits for the row's write lock.
UpdateTicketPriceRepricesItems ==
  /\ rowLock = {}
  /\ \E price \in 1..MaxPrice :
       /\ price # ticket.price
       /\ ticket' = [ticket EXCEPT !.price = price]
       /\ orderItems' = {[i EXCEPT !.priceAtTime = price] : i \in orderItems}
  /\ UNCHANGED <<orders, ticketPurchases, auditLog, rowLock, queueVars,
                 callVars, notPurchase>>

UpdateTicketPrice ==
  /\ rowLock = {}
  /\ \E price \in 1..MaxPrice :
       /\ price # ticket.price
       /\ ticket' = [ticket EXCEPT !.price = price]
  /\ UNCHANGED <<orders, orderItems, ticketPurchases, auditLog, rowLock, queueVars,
                 callVars, notPurchase>>

NextPrice ==
  \/ NextPurchase
  \/ UpdateTicketPrice

SpecPrice == InitPurchase /\ [][NextPrice]_vars

\* C12: an OrderItem's priceAtTime is the category price its purchase read, and
\* no later step changes it: the step that commits a purchase adds an item
\* whose priceAtTime is the price the call read, and every step, a price
\* change included, leaves every existing OrderItem as it was.
C12_Step ==
  /\ \A i \in orderItems : i \in orderItems'
  /\ \A p \in Calls :
       (pc[p] = "commit" /\ pc'[p] = "done") =>
          /\ orderItems' # orderItems
          /\ \A i \in orderItems' \ orderItems : i.priceAtTime = snap[p].price

OrderStatus == {"PENDING", "PAID", "CANCELLED", "REFUNDED"}
TicketPurchaseStatus == {"ACTIVE", "USED", "TRANSFERRED", "REFUNDED"}
ValidatedOrder == NumCalls + 1   \* an order made before, the one the gate's credentials name

\* qrData as scanned: not JSON at all, or a JSON object whose ticketId and
\* orderId may be missing (NoTicketId and NoOrder), name another category (TX) or
\* an order that does not exist (ValidatedOrder + 1).
QrInputs ==
  { [json |-> FALSE, ticketId |-> NoTicketId, orderId |-> NoOrder],
    [json |-> TRUE, ticketId |-> NoTicketId, orderId |-> ValidatedOrder],
    [json |-> TRUE, ticketId |-> T1, orderId |-> NoOrder],
    [json |-> TRUE, ticketId |-> T1, orderId |-> ValidatedOrder],
    [json |-> TRUE, ticketId |-> TX, orderId |-> ValidatedOrder],
    [json |-> TRUE, ticketId |-> T1, orderId |-> ValidatedOrder + 1] }

\* JSON.parse(qrData) in try/catch, then if (!parsed.ticketId || !parsed.orderId)
ParseError(qr) ==
  IF ~qr.json THEN "Invalid QR data format"
  ELSE IF qr.ticketId = NoTicketId \/ qr.orderId = NoOrder THEN "QR data missing required fields"
  ELSE "none"

\* prisma.order.findUnique({ where: { id } })
FindOrder(orderId) == {o \in orders : o.id = orderId}

\* the rows prisma.ticketPurchase.findFirst({ where: { orderId, ticketId } }) may return
MatchingPurchases(orderId, ticketId) ==
  {tp \in ticketPurchases : tp.orderId = orderId /\ tp.ticketId = ticketId}

\* if (ticketPurchase && ticketPurchase.status === 'USED')
AlreadyUsed(found) == \E tp \in found : tp.status = "USED"

\* prisma.ticketPurchase.update({ where: { id }, data: { status } })
SetPurchaseStatus(id, status) ==
  ticketPurchases' = {IF tp.id = id THEN [tp EXCEPT !.status = status] ELSE tp :
                        tp \in ticketPurchases}

\* The store as the gate finds it: one order of one unit of T1, in any status,
\* and up to MaxTps TicketPurchase rows of it, each in any status.
InitValidateStore ==
  /\ ticket = TicketRow(MaxTotal - 1, 1, OpenLimits)
  /\ available0 = MaxTotal - 1
  /\ \E st \in OrderStatus :
       orders = {[id |-> ValidatedOrder, userId |-> "u1", totalAmount |-> 1, status |-> st]}
  /\ orderItems = {[orderId |-> ValidatedOrder, ticketId |-> T1, quantity |-> 1,
                    priceAtTime |-> 1]}
  /\ \E n \in 0..MaxTps : \E sts \in [1..n -> TicketPurchaseStatus] :
       ticketPurchases = {[id |-> k, orderId |-> ValidatedOrder, ticketId |-> T1,
                           userId |-> "u1", status |-> sts[k]] : k \in 1..n}
  /\ auditLog = {}
  /\ rowLock = {}
  /\ emailJobs = {}
  /\ nftJobs = 0

InitValidate ==
  /\ InitValidateStore
  /\ pc = [p \in Calls |-> "idle"]
  /\ req = [p \in Calls |-> NoReq]
  /\ snap = [p \in Calls |-> NoSnap]
  /\ tx = [p \in Calls |-> EmptyTx]
  /\ qrCode = [p \in Calls |-> NoDataUrl]
  /\ result = [p \in Calls |-> "none"]
  /\ overlapped = {}
  /\ InitScans
  /\ now = 0 /\ InitNoPromo /\ InitLogins /\ InitNoLifecycle

\* what no step of validateTicket touches
notValidate == <<ticket, orders, orderItems, rowLock, queueVars, callVars,
                 now, promoVars, walletVars, refundVars, transferVars, codecVars, rotationVars>>

\* Mutant of ValidateFindOrderOf: a PENDING order passes the status check.
ValidateFindOrderAcceptsPending(c, inputs) ==
  /\ vpc[c] = "idle"
  /\ \E qr \in inputs :
       LET found == FindOrder(qr.orderId)
           error == IF ParseError(qr) # "none" THEN ParseError(qr)
                    ELSE IF found = {} THEN "Order not found"
                    ELSE IF \E o \in found : o.status \notin {"PAID", "PENDING"}
                      THEN "Ticket invalid: order status"
                    ELSE "none"
       IN  /\ vreq' = [vreq EXCEPT ![c] = qr]
           /\ vpc' = [vpc EXCEPT ![c] = IF error = "none" THEN "findPurchase" ELSE "failed"]
           /\ vresult' = [vresult EXCEPT ![c] = IF error = "none" THEN @ ELSE error]
  /\ UNCHANGED <<ticketPurchases, auditLog, vsnap, notValidate>>

\* The parse, the field check, prisma.order.findUnique and the two checks of the order.
ValidateFindOrderOf(c, inputs) ==
  /\ vpc[c] = "idle"
  /\ \E qr \in inputs :
       LET found == FindOrder(qr.orderId)
           error == IF ParseError(qr) # "none" THEN ParseError(qr)
                    ELSE IF found = {} THEN "Order not found"
                    ELSE IF \E o \in found : o.status # "PAID" THEN "Ticket invalid: order status"
                    ELSE "none"
       IN  /\ vreq' = [vreq EXCEPT ![c] = qr]
           /\ vpc' = [vpc EXCEPT ![c] = IF error = "none" THEN "findPurchase" ELSE "failed"]
           /\ vresult' = [vresult EXCEPT ![c] = IF error = "none" THEN @ ELSE error]
  /\ UNCHANGED <<ticketPurchases, auditLog, vsnap, notValidate>>

ValidateFindOrder(c) == ValidateFindOrderOf(c, QrInputs)

\* prisma.ticketPurchase.findFirst and the already-used check
ValidateFindPurchase(c) ==
  /\ vpc[c] = "findPurchase"
  /\ LET matching == MatchingPurchases(vreq[c].orderId, vreq[c].ticketId)
     IN  \E found \in (IF matching = {} THEN {{}} ELSE {{tp} : tp \in matching}) :
           IF AlreadyUsed(found)
             THEN /\ vpc' = [vpc EXCEPT ![c] = "failed"]
                  /\ vresult' = [vresult EXCEPT ![c] = "Ticket already used"]
                  /\ vsnap' = vsnap
             ELSE /\ vpc' = [vpc EXCEPT ![c] = "markUsed"]
                  /\ vresult' = vresult
                  /\ vsnap' = [vsnap EXCEPT ![c] = found]
  /\ UNCHANGED <<ticketPurchases, auditLog, vreq, notValidate>>

\* if (ticketPurchase) prisma.ticketPurchase.update({ data: { status: 'USED' } })
ValidateMarkUsed(c) ==
  /\ vpc[c] = "markUsed"
  /\ IF vsnap[c] = {}
       THEN ticketPurchases' = ticketPurchases
       ELSE \E tp \in vsnap[c] : SetPurchaseStatus(tp.id, "USED")
  /\ vpc' = [vpc EXCEPT ![c] = "audit"]
  /\ UNCHANGED <<auditLog, vreq, vsnap, vresult, notValidate>>

\* logAudit('TICKET_VALIDATED', ..) and return { valid: true, .. }
ValidateReturn(c) ==
  /\ vpc[c] = "audit"
  /\ \E ok \in BOOLEAN :
       LogAudit([action |-> "TICKET_VALIDATED", entity |-> "Ticket",
                 ticketId |-> vreq[c].ticketId, orderId |-> NoOrder], ok)
  /\ vpc' = [vpc EXCEPT ![c] = "done"]
  /\ vresult' = [vresult EXCEPT ![c] = "valid"]
  /\ UNCHANGED <<ticketPurchases, vreq, vsnap, notValidate>>

NextValidate ==
  \E c \in Scans :
    \/ ValidateFindOrder(c)
    \/ ValidateFindPurchase(c)
    \/ ValidateMarkUsed(c)
    \/ ValidateReturn(c)

SpecValidate == InitValidate /\ [][NextValidate]_vars

\* ------------------------------------------------- validateTicket: claims
\* C3: of the validateTicket calls that present the same credential and find its
\* TicketPurchase ACTIVE under a PAID order, exactly one returns valid=true:
\* no two of them both return valid=true.
C3_OneWinner ==
  \A c, d \in Scans :
    ( /\ c # d
      /\ vreq[c] = vreq[d]
      /\ vresult[c] = "valid" /\ vresult[d] = "valid" )
    => ~ \E tp \in vsnap[c] \cap vsnap[d] : tp.status = "ACTIVE"

\* C14: a validateTicket call on a well-formed credential whose (orderId,
\* ticketId) has no TicketPurchase row never returns valid=true: a call that
\* returned valid found a TicketPurchase.
C14_NoPurchaseNotValid ==
  \A c \in Scans : vresult[c] = "valid" => vsnap[c] # {}

\* C15: a validateTicket call that finds the credential's order in a status
\* other than PAID fails with the order-status error in that step and leaves
\* every TicketPurchase as it was; a call that failed so never goes on.
OrderNotPaidError == "Ticket invalid: order status"
C15_Step ==
  \A c \in Scans :
    ( /\ vpc[c] = "idle" /\ vpc'[c] # "idle"
      /\ ParseError(vreq'[c]) = "none"
      /\ \E o \in FindOrder(vreq'[c].orderId) : o.status # "PAID" )
    => /\ vpc'[c] = "failed"
       /\ vresult'[c] = OrderNotPaidError
       /\ ticketPurchases' = ticketPurchases

C15_Failed ==
  \A c \in Scans : vresult[c] = OrderNotPaidError => (vpc[c] = "failed" /\ vsnap[c] = {})

C15_OrderNotPaid == []C15_Failed /\ [][C15_Step]_vars

\* C15 witness: a scan of the credential of an order that is not PAID has
\* failed with the order-status error, and the order's TicketPurchase is ACTIVE.
C15_Witness ==
  \E c \in Scans :
    /\ vresult[c] = OrderNotPaidError
    /\ \E o \in FindOrder(vreq[c].orderId) : o.status # "PAID"
    /\ \E tp \in MatchingPurchases(vreq[c].orderId, vreq[c].ticketId) : tp.status = "ACTIVE"

\* ------------------------------------------------- flash sale / promo code
PromoCodes == {"P1", "PX"}     \* "P1" is the flash sale's code; "PX" is no sale's

\* what none of these steps touches
notPromo == <<storeVars, queueVars, callVars, validateVars, walletVars,
              refundVars, transferVars, codecVars, rotationVars>>

\* a store nobody buys from
InitQuietStore ==
  /\ ticket = TicketRow(MaxTotal, 1, OpenLimits)
  /\ available0 = MaxTotal
  /\ orders = {}
  /\ orderItems = {}
  /\ ticketPurchases = {}
  /\ auditLog = {}
  /\ rowLock = {}
  /\ emailJobs = {}
  /\ nftJobs = 0
  /\ pc = [p \in Calls |-> "idle"]
  /\ req = [p \in Calls |-> NoReq]
  /\ snap = [p \in Calls |-> NoSnap]
  /\ tx = [p \in Calls |-> EmptyTx]
  /\ qrCode = [p \in Calls |-> NoDataUrl]
  /\ result = [p \in Calls |-> "none"]
  /\ overlapped = {}
  /\ InitScans

InitPromo ==
  /\ InitQuietStore /\ InitLogins /\ InitNoLifecycle
  /\ now = 0
  /\ \E active \in BOOLEAN, cap \in {NoCap} \cup 1..MaxCap, used \in 0..MaxCap,
        cats \in {{}, {"VIP"}} :
       /\ cap # NoCap => used <= cap
       /\ flashSale = [isActive |-> active, startTime |-> TickStep,
                       endTime |-> MaxTime - TickStep,
                       maxRedemptions |-> cap, currentRedemptions |-> used,
                       ticketCategories |-> cats]
  /\ InitCheckouts

\* prisma.flashSale.findFirst({ where: { eventId, promoCode, isActive: true,
\*   startTime: { lte: now }, endTime: { gte: now } } })
FindFlashSale(promoCode) ==
  IF /\ promoCode = "P1"
     /\ flashSale.isActive
     /\ flashSale.startTime <= now
     /\ flashSale.endTime >= now
  THEN {flashSale} ELSE {}

\* Mutant of CapReached: the cap is reached only once it is exceeded.
CapReachedWhenExceeded(fs) ==
  fs.maxRedemptions # NoCap /\ fs.currentRedemptions > fs.maxRedemptions

\* if (flashSale.maxRedemptions && flashSale.currentRedemptions >= flashSale.maxRedemptions)
CapReached(fs) ==
  fs.maxRedemptions # NoCap /\ fs.currentRedemptions >= fs.maxRedemptions

\* if (flashSale.ticketCategories.length > 0 && !flashSale.ticketCategories.includes(ticketCategory))
CategoryExcluded(fs, ticketCategory) ==
  fs.ticketCategories # {} /\ ticketCategory \notin fs.ticketCategories

\* validatePromoCode(eventId, promoCode, ticketCategory)
PromoError(promoCode, ticketCategory) ==
  LET found == FindFlashSale(promoCode)
  IN  IF found = {} THEN "Invalid or expired promo code"
      ELSE IF \E fs \in found : CapReached(fs)
             THEN "Promo code has reached its maximum usage limit"
      ELSE IF \E fs \in found : CategoryExcluded(fs, ticketCategory)
             THEN "This promo code does not apply to the selected ticket category"
      ELSE "none"

\* A checkout calls validatePromoCode and keeps the flashSaleId it returns.
CheckoutValidate(k) ==
  /\ kpc[k] = "idle"
  /\ \E code \in PromoCodes, cat \in Categories :
       LET error == PromoError(code, cat)
       IN  /\ kreq' = [kreq EXCEPT ![k] = [promoCode |-> code, ticketCategory |-> cat]]
           /\ kpc' = [kpc EXCEPT ![k] = IF error = "none" THEN "redeem" ELSE "failed"]
           /\ kresult' = [kresult EXCEPT ![k] = IF error = "none" THEN "valid" ELSE error]
  /\ UNCHANGED <<now, flashSale, capEdited, notPromo>>

\* redeemFlashSale(flashSaleId): currentRedemptions: { increment: 1 }
CheckoutRedeem(k) ==
  /\ kpc[k] = "redeem"
  /\ flashSale' = [flashSale EXCEPT !.currentRedemptions = @ + 1]
  /\ kpc' = [kpc EXCEPT ![k] = "done"]
  /\ UNCHANGED <<now, kreq, kresult, capEdited, notPromo>>

\* updateFlashSale(flashSaleId, data, organizerId, userRole): the row's organizer
\* or an admin writes data as given; anyone else gets 'Unauthorized'.
UpdateFlashSale ==
  /\ \E caller \in {"organizer", "admin", "other"} :
     \E data \in [field : {"isActive"}, value : BOOLEAN]
            \cup [field : {"maxRedemptions"}, value : 1..MaxCap]
            \cup [field : {"ticketCategories"}, value : {{}, {"VIP"}}] :
       IF caller = "other"
         THEN UNCHANGED <<flashSale, capEdited>>
         ELSE /\ flashSale' =
                   IF data.field = "isActive" THEN [flashSale EXCEPT !.isActive = data.value]
                   ELSE IF data.field = "maxRedemptions"
                     THEN [flashSale EXCEPT !.maxRedemptions = data.value]
                   ELSE [flashSale EXCEPT !.ticketCategories = data.value]
              /\ capEdited' = (capEdited \/ flashSale'.maxRedemptions # flashSale.maxRedemptions)
  /\ UNCHANGED <<now, kpc, kreq, kresult, notPromo>>

\* time passes
Tick ==
  /\ now + TickStep <= MaxTime
  /\ now' = now + TickStep
  /\ UNCHANGED <<storeVars, queueVars, callVars, validateVars, promoVars, walletVars,
                 refundVars, transferVars, codecVars, rotationVars>>

NextPromo ==
  \/ \E k \in Checkouts : CheckoutValidate(k)
  \/ \E k \in Checkouts : CheckoutRedeem(k)
  \/ UpdateFlashSale
  \/ Tick

SpecPromo == InitPromo /\ [][NextPromo]_vars

\* ------------------------------------------------------ flash sale: claims
\* C4: while nobody has edited the cap, a flash sale whose maxRedemptions is
\* set has currentRedemptions <= maxRedemptions, whatever the checkouts do.
C4_PromoCap ==
  (~capEdited /\ flashSale.maxRedemptions # NoCap) =>
     flashSale.currentRedemptions <= flashSale.maxRedemptions
\* ------------------------------------------------------------- walletLogin
MaxAgeSeconds == 300     \* const maxAge = 5 * 60
NonceTtlSeconds == 600   \* redis.set(nonceKey, '1', { ex: 600 })

\* what none of these steps touches
notWallet == <<storeVars, queueVars, callVars, validateVars, promoVars,
               refundVars, transferVars, codecVars, rotationVars>>

InitWallet == InitQuietStore /\ now = 0 /\ InitNoPromo /\ InitLogins /\ InitNoLifecycle

Abs(x) == IF x < 0 THEN -x ELSE x

\* Mutant of SignatureExpired: only timestamps in the past expire.
SignatureExpiredPastOnly(currentTimestamp, timestamp) ==
  currentTimestamp - timestamp > MaxAgeSeconds

\* if (Math.abs(currentTimestamp - timestamp) > maxAge)
SignatureExpired(currentTimestamp, timestamp) ==
  Abs(currentTimestamp - timestamp) > MaxAgeSeconds

\* redis.exists(nonceKey) > 0: the key was set and has not expired
NonceExists(nonce) == nonceStore[nonce] > now

\* Steps 1 to 4: the timestamp window, redis.exists, the message format and the
\* signature.  Nothing is awaited between the answer of redis.exists and the
\* call of redis.set.
LoginCheck(l) ==
  /\ wpc[l] = "idle"
  /\ \E n \in Nonces, ts \in Times, messageOk \in BOOLEAN, signatureOk \in BOOLEAN :
       LET error == IF SignatureExpired(now, ts) THEN "Signature expired"
                    ELSE IF NonceExists(n) THEN "Nonce already used"
                    ELSE IF ~messageOk THEN "Invalid message format"
                    ELSE IF ~signatureOk THEN "Wallet verification failed"
                    ELSE "none"
       IN  /\ wreq' = [wreq EXCEPT ![l] = [nonce |-> n, timestamp |-> ts,
                                           messageOk |-> messageOk, signatureOk |-> signatureOk]]
           /\ wnow' = [wnow EXCEPT ![l] = now]
           /\ wpc' = [wpc EXCEPT ![l] = IF error = "none" THEN "store" ELSE "failed"]
           /\ wresult' = [wresult EXCEPT ![l] = IF error = "none" THEN @ ELSE error]
  /\ UNCHANGED <<now, nonceStore, notWallet>>

\* Step 5: redis.set(nonceKey, '1', { ex: 600 })
LoginStoreNonce(l) ==
  /\ wpc[l] = "store"
  /\ nonceStore' = [nonceStore EXCEPT ![wreq[l].nonce] = now + NonceTtlSeconds]
  /\ wpc' = [wpc EXCEPT ![l] = "issue"]
  /\ UNCHANGED <<now, wreq, wnow, wresult, notWallet>>

\* find or create the user, generate the access and the refresh token, return
LoginIssueTokens(l) ==
  /\ wpc[l] = "issue"
  /\ wpc' = [wpc EXCEPT ![l] = "done"]
  /\ wresult' = [wresult EXCEPT ![l] = "ok"]
  /\ UNCHANGED <<now, nonceStore, wreq, wnow, notWallet>>

NextWallet ==
  \/ \E l \in Logins : LoginCheck(l)
  \/ \E l \in Logins : LoginStoreNonce(l)
  \/ \E l \in Logins : LoginIssueTokens(l)
  \/ Tick

SpecWallet == InitWallet /\ [][NextWallet]_vars

\* ----------------------------------------------------- walletLogin: claims
\* C5: of the walletLogin calls that carry the same nonce, at most one finds
\* the nonce fresh within one lifetime of the nonce record: two calls that both
\* passed the nonce check did so at least the record's TTL apart.
C5_NonceConsumedOnce ==
  \A l, m \in Logins :
    ( /\ l # m
      /\ wreq[l].nonce = wreq[m].nonce
      /\ wpc[l] \in {"store", "issue", "done"}
      /\ wpc[m] \in {"store", "issue", "done"} )
    => Abs(wnow[l] - wnow[m]) >= NonceTtlSeconds

\* ------------------------------------------- payment callback, refund review
Users == {"u1", "u2"}                 \* rows of table users
EmailOf(u) == IF u = "u1" THEN "u1@x" ELSE "u2@x"
Emails == {"u1@x", "u2@x", "nobody@x"}   \* "nobody@x": no user has it
RefundDecisions == {"APPROVED", "REJECTED"}

\* prisma.order.update({ where: { id }, data: { status } })
SetOrderStatus(id, status) ==
  orders' = {IF o.id = id THEN [o EXCEPT !.status = status] ELSE o : o \in orders}

\* prisma.ticketPurchase.updateMany({ where: { orderId }, data: { status } })
SetPurchasesStatus(orderId, status) ==
  ticketPurchases' = {IF tp.orderId = orderId THEN [tp EXCEPT !.status = status] ELSE tp :
                        tp \in ticketPurchases}

\* The store as purchase and payment leave it: the order of one unit of T1,
\* PENDING (its payment not initiated, or initiated and awaiting the gateway's
\* callback) or PAID, and up to MaxTps TicketPurchase rows of it, each ACTIVE
\* and owned by the buyer.
InitPaidStore ==
  /\ ticket = TicketRow(MaxTotal - 1, 1, OpenLimits)
  /\ available0 = MaxTotal - 1
  /\ \E st \in {<<"PENDING", "none">>, <<"PENDING", "PENDING">>, <<"PAID", "COMPLETED">>} :
       /\ orders = {[id |-> ValidatedOrder, userId |-> "u1", totalAmount |-> 1, status |-> st[1]]}
       /\ transaction = st[2]
  /\ orderItems = {[orderId |-> ValidatedOrder, ticketId |-> T1, quantity |-> 1,
                    priceAtTime |-> 1]}
  /\ \E n \in 0..MaxTps :
       ticketPurchases = {[id |-> k, orderId |-> ValidatedOrder, ticketId |-> T1,
                           userId |-> "u1", status |-> "ACTIVE"] : k \in 1..n}
  /\ auditLog = {}
  /\ rowLock = {}
  /\ emailJobs = {}
  /\ nftJobs = 0

InitRefund ==
  /\ InitPaidStore
  /\ InitCalls /\ InitScans
  /\ now = 0 /\ InitNoPromo /\ InitLogins
  /\ InitRefundCalls /\ InitTransfers /\ InitCodecIdle

\* what no step of the payment callback, requestRefund or reviewRefundRequest touches
notRefund == <<ticket, orderItems, rowLock, queueVars, callVars, validateVars,
               now, promoVars, walletVars, transferVars, codecVars, rotationVars>>

\* handleMpesaCallback(callbackData): the transaction is found by its gateway
\* reference (a callback that finds none changes nothing); ResultCode 0 sets
\* the transaction COMPLETED and the order PAID in one store transaction,
\* whatever the order's status was; another code sets the transaction FAILED.
\* The gateway repeats a callback it got no answer to.
MpesaCallback ==
  /\ transaction # "none"
  /\ \E resultCode \in {0, 1} :
       IF resultCode = 0
         THEN /\ transaction' = "COMPLETED"
              /\ SetOrderStatus(ValidatedOrder, "PAID")
         ELSE /\ transaction' = "FAILED"
              /\ orders' = orders
  /\ UNCHANGED <<ticketPurchases, auditLog, refundRequests, fpc, freq, fresult,
                 rpc, rreq, rsnap, rresult, notRefund>>

\* Mutant of RequestFindOrder: the order's status is not checked.
RequestFindOrderAnyStatus(f) ==
  /\ fpc[f] = "idle"
  /\ \E orderId \in {ValidatedOrder, ValidatedOrder + 1}, userId \in Users :
       LET found == FindOrder(orderId)
           error == IF found = {} THEN "Order not found"
                    ELSE IF \E o \in found : o.userId # userId
                      THEN "Unauthorized: This is not your order"
                    ELSE "none"
       IN  /\ freq' = [freq EXCEPT ![f] = [orderId |-> orderId, userId |-> userId]]
           /\ fpc' = [fpc EXCEPT ![f] = IF error = "none" THEN "findExisting" ELSE "failed"]
           /\ fresult' = [fresult EXCEPT ![f] = IF error = "none" THEN @ ELSE error]
  /\ UNCHANGED <<orders, ticketPurchases, auditLog, transaction, refundRequests,
                 rpc, rreq, rsnap, rresult, notRefund>>

\* requestRefund(orderId, userId, reason): prisma.order.findUnique and the three checks
RequestFindOrder(f) ==
  /\ fpc[f] = "idle"
  /\ \E orderId \in {ValidatedOrder, ValidatedOrder + 1}, userId \in Users :
       LET found == FindOrder(orderId)
           error == IF found = {} THEN "Order not found"
                    ELSE IF \E o \in found : o.userId # userId
                      THEN "Unauthorized: This is not your order"
                    ELSE IF \E o \in found : o.status # "PAID"
                      THEN "Only paid orders can be refunded"
                    ELSE "none"
       IN  /\ freq' = [freq EXCEPT ![f] = [orderId |-> orderId, userId |-> userId]]
           /\ fpc' = [fpc EXCEPT ![f] = IF error = "none" THEN "findExisting" ELSE "failed"]
           /\ fresult' = [fresult EXCEPT ![f] = IF error = "none" THEN @ ELSE error]
  /\ UNCHANGED <<orders, ticketPurchases, auditLog, transaction, refundRequests,
                 rpc, rreq, rsnap, rresult, notRefund>>

\* prisma.refundRequest.findFirst({ where: { orderId, status: 'PENDING' } })
PendingRequests(orderId) ==
  {q \in refundRequests : q.orderId = orderId /\ q.status = "PENDING"}

RequestFindExisting(f) ==
  /\ fpc[f] = "findExisting"
  /\ IF PendingRequests(freq[f].orderId) # {}
       THEN /\ fpc' = [fpc EXCEPT ![f] = "failed"]
            /\ fresult' = [fresult EXCEPT ![f] =
                 "A refund request for this order is already pending"]
       ELSE /\ fpc' = [fpc EXCEPT ![f] = "create"]
            /\ fresult' = fresult
  /\ UNCHANGED <<orders, ticketPurchases, auditLog, transaction, refundRequests, freq,
                 rpc, rreq, rsnap, rresult, notRefund>>

\* The refund request id a call's refundRequest.create is given (one per call).
NewRequestId(f) == f

\* prisma.refundRequest.create (status defaults to PENDING), logAudit, return
RequestCreate(f) ==
  /\ fpc[f] = "create"
  /\ refundRequests' = refundRequests \cup
       {[id |-> NewRequestId(f), orderId |-> freq[f].orderId, userId |-> freq[f].userId,
         status |-> "PENDING"]}
  /\ \E ok \in BOOLEAN :
       LogAudit([action |-> "REFUND_REQUESTED", entity |-> "Order",
                 ticketId |-> NoTicketId, orderId |-> freq[f].orderId], ok)
  /\ fpc' = [fpc EXCEPT ![f] = "done"]
  /\ fresult' = [fresult EXCEPT ![f] = "submitted"]
  /\ UNCHANGED <<orders, ticketPurchases, transaction, freq,
                 rpc, rreq, rsnap, rresult, notRefund>>

\* prisma.refundRequest.findUnique({ where: { id } })
FindRefundRequest(requestId) == {q \in refundRequests : q.id = requestId}

\* reviewRefundRequest(requestId, adminId, status, notes): findUnique and the two checks
ReviewFind(r) ==
  /\ rpc[r] = "idle"
  /\ \E requestId \in Refunders, status \in RefundDecisions :
       LET found == FindRefundRequest(requestId)
           error == IF found = {} THEN "Refund request not found"
                    ELSE IF \E q \in found : q.status # "PENDING"
                      THEN "Refund request has already been reviewed"
                    ELSE "none"
       IN  /\ rreq' = [rreq EXCEPT ![r] = [requestId |-> requestId, status |-> status]]
           /\ rpc' = [rpc EXCEPT ![r] = IF error = "none" THEN "updateRequest" ELSE "failed"]
           /\ rresult' = [rresult EXCEPT ![r] = IF error = "none" THEN @ ELSE error]
           /\ rsnap' = [rsnap EXCEPT ![r] = IF error = "none" THEN found ELSE @]
  /\ UNCHANGED <<orders, ticketPurchases, auditLog, transaction, refundRequests,
                 fpc, freq, fresult, notRefund>>

\* prisma.refundRequest.update({ where: { id }, data: { status, .. } })
ReviewUpdateRequest(r) ==
  /\ rpc[r] = "updateRequest"
  /\ refundRequests' = {IF q.id = rreq[r].requestId THEN [q EXCEPT !.status = rreq[r].status]
                        ELSE q : q \in refundRequests}
  /\ rpc' = [rpc EXCEPT ![r] = IF rreq[r].status = "APPROVED" THEN "updateOrder" ELSE "notify"]
  /\ UNCHANGED <<orders, ticketPurchases, auditLog, transaction,
                 fpc, freq, fresult, rreq, rsnap, rresult, notRefund>>

\* if (status === 'APPROVED') prisma.order.update({ data: { status: 'REFUNDED' } })
ReviewUpdateOrder(r) ==
  /\ rpc[r] = "updateOrder"
  /\ \E q \in rsnap[r] : SetOrderStatus(q.orderId, "REFUNDED")
  /\ rpc' = [rpc EXCEPT ![r] = "updatePurchases"]
  /\ UNCHANGED <<ticketPurchases, auditLog, transaction, refundRequests,
                 fpc, freq, fresult, rreq, rsnap, rresult, notRefund>>

\* prisma.ticketPurchase.updateMany({ where: { orderId }, data: { status: 'REFUNDED' } })
ReviewUpdatePurchases(r) ==
  /\ rpc[r] = "updatePurchases"
  /\ \E q \in rsnap[r] : SetPurchasesStatus(q.orderId, "REFUNDED")
  /\ rpc' = [rpc EXCEPT ![r] = "notify"]
  /\ UNCHANGED <<orders, auditLog, transaction, refundRequests,
                 fpc, freq, fresult, rreq, rsnap, rresult, notRefund>>

\* createNotification, logAudit('REFUND_REQUEST_REVIEWED', ..), return
ReviewReturn(r) ==
  /\ rpc[r] = "notify"
  /\ \E ok \in BOOLEAN :
       LogAudit([action |-> "REFUND_REQUEST_REVIEWED", entity |-> "RefundRequest",
                 ticketId |-> NoTicketId, orderId |-> NoOrder], ok)
  /\ rpc' = [rpc EXCEPT ![r] = "done"]
  /\ rresult' = [rresult EXCEPT ![r] = "reviewed"]
  /\ UNCHANGED <<orders, ticketPurchases, transaction, refundRequests,
                 fpc, freq, fresult, rreq, rsnap, notRefund>>

\* the QR the buyer was issued for the order, as generateTicketQR encoded it
Credential == [json |-> TRUE, ticketId |-> T1, orderId |-> ValidatedOrder]

\* validateTicket(qrData) on the order's credential
ValidateCredential(c) == ValidateFindOrderOf(c, {Credential})

NextRefund ==
  \/ MpesaCallback
  \/ \E f \in Refunders : RequestFindOrder(f)
  \/ \E f \in Refunders : RequestFindExisting(f)
  \/ \E f \in Refunders : RequestCreate(f)
  \/ \E r \in Reviews : ReviewFind(r)
  \/ \E r \in Reviews : ReviewUpdateRequest(r)
  \/ \E r \in Reviews : ReviewUpdateOrder(r)
  \/ \E r \in Reviews : ReviewUpdatePurchases(r)
  \/ \E r \in Reviews : ReviewReturn(r)
  \/ \E c \in Scans : ValidateCredential(c)
  \/ \E c \in Scans : ValidateFindPurchase(c)
  \/ \E c \in Scans : ValidateMarkUsed(c)
  \/ \E c \in Scans : ValidateReturn(c)

SpecRefund == InitRefund /\ [][NextRefund]_vars

\* --------------------------------------------------- refund review: claims
SameRow(a, b) == a.id = b.id

\* C13: USED and REFUNDED are terminal: no step changes the status of a
\* TicketPurchase that is USED or REFUNDED.
C13_Step ==
  \A tp \in ticketPurchases :
    tp.status \in {"USED", "REFUNDED"} =>
      \E after \in ticketPurchases' : SameRow(after, tp) /\ after.status = tp.status

C13_TerminalStates == [][C13_Step]_vars

\* C16: validateTicket goes on to mark and return valid only for a
\* TicketPurchase it found ACTIVE: a call past the already-used check that
\* found a TicketPurchase found it ACTIVE.
C16_OnlyActiveValidated ==
  \A c \in Scans :
    vpc[c] \in {"markUsed", "audit", "done"} =>
      \A tp \in vsnap[c] : tp.status = "ACTIVE"

\* C17: while a TicketPurchase of the order is USED, no step marks the order
\* REFUNDED and no step marks a TicketPurchase REFUNDED (the approval fails as
\* a whole).
C17_Step ==
  (\E tp \in ticketPurchases : tp.status = "USED") =>
     /\ \A o \in orders' : o.status = "REFUNDED" => o \in orders
     /\ \A tp \in ticketPurchases' : tp.status = "REFUNDED" => tp \in ticketPurchases

C17_PartiallyUsedRejected == [][C17_Step]_vars

\* C18: an order becomes REFUNDED only from PAID and only by the order update
\* of a reviewRefundRequest call whose decision is APPROVED.
C18_Step ==
  \A o \in orders, after \in orders' :
    (SameRow(o, after) /\ o.status # "REFUNDED" /\ after.status = "REFUNDED") =>
       /\ o.status = "PAID"
       /\ \E r \in Reviews :
            /\ rpc[r] = "updateOrder" /\ rpc'[r] = "updatePurchases"
            /\ rreq[r].status = "APPROVED"
            /\ \E q \in rsnap[r] : q.orderId = o.id

notTransfer == <<ticket, orders, orderItems, rowLock, queueVars, callVars, validateVars,
                 now, promoVars, walletVars, refundVars, codecVars, rotationVars>>

\* prisma.ticketPurchase.findUnique({ where: { id } })
FindPurchase(id) == {tp \in ticketPurchases : tp.id = id}

\* prisma.user.findUnique({ where: { email } })
FindUserByEmail(email) == {u \in Users : EmailOf(u) = email}

NotYourTicket == "Unauthorized: This is not your ticket"
NotActive == "Only active tickets can be transferred"
NoRecipient == "Recipient user not found"
ToYourself == "Cannot transfer ticket to yourself"

\* Mutant of TransferFind: the caller is not compared with the owner.
TransferFindAnyCaller(x) ==
  /\ tpc[x] = "idle"
  /\ \E id \in 1..(MaxTps + 1), userId \in Users, email \in Emails :
       LET found == FindPurchase(id)
           error == IF found = {} THEN "Ticket not found"
                    ELSE IF \E tp \in found : tp.status # "ACTIVE" THEN NotActive
                    ELSE "none"
       IN  /\ treq' = [treq EXCEPT ![x] =
                 [ticketPurchaseId |-> id, userId |-> userId, recipientEmail |-> email]]
           /\ tpc' = [tpc EXCEPT ![x] = IF error = "none" THEN "findRecipient" ELSE "failed"]
           /\ tresult' = [tresult EXCEPT ![x] = IF error = "none" THEN @ ELSE error]
  /\ UNCHANGED <<ticketPurchases, auditLog, trecipient, notTransfer>>

\* transferTicket(ticketPurchaseId, userId, recipientEmail): findUnique and the three checks
TransferFind(x) ==
  /\ tpc[x] = "idle"
  /\ \E id \in 1..(MaxTps + 1), userId \in Users, email \in Emails :
       LET found == FindPurchase(id)
           error == IF found = {} THEN "Ticket not found"
                    ELSE IF \E tp \in found : tp.userId # userId THEN NotYourTicket
                    ELSE IF \E tp \in found : tp.status # "ACTIVE" THEN NotActive
                    ELSE "none"
       IN  /\ treq' = [treq EXCEPT ![x] =
                 [ticketPurchaseId |-> id, userId |-> userId, recipientEmail |-> email]]
           /\ tpc' = [tpc EXCEPT ![x] = IF error = "none" THEN "findRecipient" ELSE "failed"]
           /\ tresult' = [tresult EXCEPT ![x] = IF error = "none" THEN @ ELSE error]
  /\ UNCHANGED <<ticketPurchases, auditLog, trecipient, notTransfer>>

\* prisma.user.findUnique by email and the two checks of the recipient
TransferFindRecipient(x) ==
  /\ tpc[x] = "findRecipient"
  /\ LET found == FindUserByEmail(treq[x].recipientEmail)
         error == IF found = {} THEN NoRecipient
                  ELSE IF treq[x].userId \in found THEN ToYourself
                  ELSE "none"
     IN  /\ tpc' = [tpc EXCEPT ![x] = IF error = "none" THEN "update" ELSE "failed"]
         /\ tresult' = [tresult EXCEPT ![x] = IF error = "none" THEN @ ELSE error]
         /\ trecipient' = [trecipient EXCEPT ![x] =
               IF error = "none" THEN CHOOSE u \in found : TRUE ELSE @]
  /\ UNCHANGED <<ticketPurchases, auditLog, treq, notTransfer>>

\* Mutant of TransferUpdate: the update also writes the status.
TransferUpdateMarksTransferred(x) ==
  /\ tpc[x] = "update"
  /\ ticketPurchases' =
       {IF tp.id = treq[x].ticketPurchaseId
          THEN [tp EXCEPT !.userId = trecipient[x], !.status = "TRANSFERRED"]
          ELSE tp : tp \in ticketPurchases}
  /\ \E ok \in BOOLEAN :
       LogAudit([action |-> "TICKET_TRANSFERRED", entity |-> "TicketPurchase",
                 ticketId |-> NoTicketId, orderId |-> NoOrder], ok)
  /\ tpc' = [tpc EXCEPT ![x] = "done"]
  /\ tresult' = [tresult EXCEPT ![x] = "transferred"]
  /\ UNCHANGED <<treq, trecipient, notTransfer>>

\* prisma.ticketPurchase.update({ where: { id }, data: { userId: recipient.id } }),
\* logAudit('TICKET_TRANSFERRED', ..), return
TransferUpdate(x) ==
  /\ tpc[x] = "update"
  /\ ticketPurchases' =
       {IF tp.id = treq[x].ticketPurchaseId THEN [tp EXCEPT !.userId = trecipient[x]]
        ELSE tp : tp \in ticketPurchases}
  /\ \E ok \in BOOLEAN :
       LogAudit([action |-> "TICKET_TRANSFERRED", entity |-> "TicketPurchase",
                 ticketId |-> NoTicketId, orderId |-> NoOrder], ok)
  /\ tpc' = [tpc EXCEPT ![x] = "done"]
  /\ tresult' = [tresult EXCEPT ![x] = "transferred"]
  /\ UNCHANGED <<treq, trecipient, notTransfer>>

\* The store as the holder of a paid order finds it.
InitTransfer ==
  /\ InitRefund
  /\ \A o \in orders : o.status = "PAID"

NextTransfer ==
  \/ \E x \in Transfers : TransferFind(x)
  \/ \E x \in Transfers : TransferFindRecipient(x)
  \/ \E x \in Transfers : TransferUpdate(x)
  \/ \E c \in GateScans : ValidateCredential(c)
  \/ \E c \in GateScans : ValidateFindPurchase(c)
  \/ \E c \in GateScans : ValidateMarkUsed(c)
  \/ \E c \in GateScans : ValidateReturn(c)

SpecTransfer == InitTransfer /\ [][NextTransfer]_vars

\* ---------------------------------------------------- transferTicket: claims
\* C19: the step in which a transferTicket call succeeds sets the userId of
\* its TicketPurchase to the recipient (the user with the recipient email) and
\* changes nothing else: the row's status, orderId and ticketId, every other
\* TicketPurchase, the orders, the order items and the ticket category are
\* as before.
C19_Step ==
  \A x \in Transfers :
    (tpc[x] # "done" /\ tpc'[x] = "done") =>
      /\ trecipient[x] \in FindUserByEmail(treq[x].recipientEmail)
      /\ FindPurchase(treq[x].ticketPurchaseId) # {}
      /\ ticketPurchases' =
           {IF tp.id = treq[x].ticketPurchaseId
              THEN [id |-> tp.id, orderId |-> tp.orderId, ticketId |-> tp.ticketId,
                    userId |-> trecipient[x], status |-> tp.status]
              ELSE tp : tp \in ticketPurchases}
      /\ UNCHANGED <<orders, orderItems, ticket>>

C20_Step ==
  \A x \in Transfers :
    /\ ( /\ tpc[x] = "idle" /\ tpc'[x] # "idle"
         /\ \E tp \in FindPurchase(treq'[x].ticketPurchaseId) :
              tp.userId # treq'[x].userId \/ tp.status # "ACTIVE" )
       => (tpc'[x] = "failed" /\ tresult'[x] \in {NotYourTicket, NotActive})
    /\ ( /\ tpc[x] = "findRecipient" /\ tpc'[x] # "findRecipient"
         /\ \/ FindUserByEmail(treq[x].recipientEmail) = {}
            \/ treq[x].userId \in FindUserByEmail(treq[x].recipientEmail) )
       => (tpc'[x] = "failed" /\ tresult'[x] \in {NoRecipient, ToYourself})
    /\ (tpc[x] # "failed" /\ tpc'[x] = "failed") => ticketPurchases' = ticketPurchases
    /\ tpc[x] = "failed" => tpc'[x] = "failed"

C20_TransferRejected == [][C20_Step]_vars

\* C20 witness: the owner's call was rejected because the TicketPurchase is
\* USED, and the row is still the owner's.
C20_Witness ==
  \E x \in Transfers :
    /\ tresult[x] = NotActive
    /\ \E tp \in FindPurchase(treq[x].ticketPurchaseId) :
         tp.status = "USED" /\ tp.userId = treq[x].userId

\* ------------------------------------------- walletLogin: replay and expiry
\* C21: a walletLogin call that presents the values (nonce, timestamp, message,
\* signature) of a call that has already succeeded is rejected, at whatever
\* later time it is made.
C21_Step ==
  \A m \in Logins :
    ( /\ wpc[m] = "idle" /\ wpc'[m] # "idle"
      /\ \E l \in Logins : l # m /\ wresult[l] = "ok" /\ wreq[l] = wreq'[m] )
    => wpc'[m] = "failed"
C21_NoReplay == [][C21_Step]_vars

\* C22: a walletLogin call whose signed timestamp is more than 300 seconds away
\* from the current time, before or after it, fails with the expiry error
\* whatever its nonce; the failing step stores no nonce, and the failed call
\* makes no further step, so it is issued no tokens.
ExpiredError == "Signature expired"
C22_Step ==
  \A l \in Logins :
    /\ ( /\ wpc[l] = "idle" /\ wpc'[l] # "idle"
         /\ Abs(now - wreq'[l].timestamp) > MaxAgeSeconds )
       => /\ wpc'[l] = "failed"
          /\ wresult'[l] = ExpiredError
          /\ nonceStore' = nonceStore
    /\ wpc[l] = "failed" => (wpc'[l] = "failed" /\ wresult'[l] = wresult[l])
C22_ExpiredRejected == [][C22_Step]_vars
\* one call rejected for a timestamp too far in the future, with a nonce that
\* was never stored, and one for a timestamp too old
C22_Witness ==
  \E l, m \in Logins :
    /\ wresult[l] = ExpiredError /\ wreq[l].timestamp - wnow[l] > MaxAgeSeconds
    /\ wresult[m] = ExpiredError /\ wnow[m] - wreq[m].timestamp > MaxAgeSeconds
    /\ nonceStore[wreq[l].nonce] = 0

\* ------------------------------------------------ purchase: preconditions
\* C23: no purchaseTickets call succeeds with a quantity above the category's
\* maxPerPurchase, or at a time outside [salesStartTime, salesEndTime] when the
\* category has a sales window: such a call is rejected and writes nothing.
SalesWindowClosed(t) ==
  /\ t.salesStartTime # NoTime
  /\ (now < t.salesStartTime \/ now > t.salesEndTime)
C23_PreconditionsEnforced ==
  \A p \in Calls :
    result[p] = "ok" =>
      /\ req[p].quantity <= ticket.maxPerPurchase
      /\ ~SalesWindowClosed(ticket)

\* ----------------------------------------------- validatePromoCode: guards
\* C24: validatePromoCode returns the discount terms exactly when the code is
\* that of a flash sale with isActive true and startTime <= now <= endTime,
\* whose currentRedemptions is below maxRedemptions when it has a cap, and whose
\* ticketCategories is empty or holds the requested category; otherwise it
\* fails; and it never changes currentRedemptions.
C24_GuardsHold(promoCode, ticketCategory) ==
  /\ promoCode = "P1"
  /\ flashSale.isActive
  /\ flashSale.startTime <= now /\ now <= flashSale.endTime
  /\ (flashSale.maxRedemptions # NoCap
        => flashSale.currentRedemptions < flashSale.maxRedemptions)
  /\ (flashSale.ticketCategories = {} \/ ticketCategory \in flashSale.ticketCategories)
C24_Step ==
  \A k \in Checkouts :
    (kpc[k] = "idle" /\ kpc'[k] # "idle") =>
      /\ (kresult'[k] = "valid")
           <=> C24_GuardsHold(kreq'[k].promoCode, kreq'[k].ticketCategory)
      /\ kresult'[k] # "valid" => kpc'[k] = "failed"
      /\ flashSale'.currentRedemptions = flashSale.currentRedemptions
notCodec == <<ticket, orders, orderItems, ticketPurchases, rowLock, queueVars, callVars,
              validateVars, now, promoVars, walletVars, refundVars, transferVars,
              rotationVars>>

InitCodec == InitQuietStore /\ now = 0 /\ InitNoPromo /\ InitLogins /\ InitNoLifecycle

\* generateTicketQR(ticketId, orderId): the payload, JSON.stringify,
\* QRCode.toDataURL, logAudit('QR_GENERATED'), return qrUrl
CodecGenerate ==
  /\ cpc = "idle"
  /\ \E ticketId \in IdTexts, orderId \in IdTexts :
       /\ cids' = [ticketId |-> ticketId, orderId |-> orderId]
       /\ cqr' = GenerateTicketQR(ticketId, orderId, now)
       /\ \E ok \in BOOLEAN :
            LogAudit([action |-> "QR_GENERATED", entity |-> "Ticket", ticketId |-> ticketId,
                      orderId |-> NoOrder], ok)
  /\ cpc' = "generated"
  /\ UNCHANGED <<cdata, cparsed, notCodec>>

\* The gate's scanner reads the QR symbol: all of qrData, or, from a damaged
\* print, qrData short of its last character.
CodecScan ==
  /\ cpc = "generated"
  /\ \E intact \in BOOLEAN :
       cdata' = IF intact THEN ScanQR(cqr)
                ELSE SubSeq(ScanQR(cqr), 1, Len(ScanQR(cqr)) - 1)
  /\ cpc' = "scanned"
  /\ UNCHANGED <<cids, cqr, cparsed, auditLog, notCodec>>

\* validateTicket(qrData), up to the fields it has parsed
CodecParse ==
  /\ cpc = "scanned"
  /\ cparsed' = ParseQrData(cdata)
  /\ cpc' = "parsed"
  /\ UNCHANGED <<cids, cqr, cdata, auditLog, notCodec>>

NextCodec ==
  \/ NextPurchase
  \/ CodecGenerate
  \/ CodecScan
  \/ CodecParse

SpecCodec == InitCodec /\ [][NextCodec]_vars

\* C25: the credential codec is a lossless round trip: what validateTicket's
\* parse makes of the text generateTicketQR encoded is the ticketId and the
\* orderId generateTicketQR was given, whatever their characters; and the
\* credential a purchase returns encodes the ticketId purchased and the id of
\* the order the purchase created.
C25_Decodes ==
  (cpc = "parsed" /\ cdata = ScanQR(cqr)) =>
     /\ cparsed.error = "none"
     /\ cparsed.ticketId = cids.ticketId
     /\ cparsed.orderId = cids.orderId
C25_PurchaseCredential ==
  \A p \in Calls :
    result[p] = "ok" =>
      LET parsed == ParseQrData(ScanQR(qrCode[p]))
      IN  /\ parsed.error = "none"
          /\ parsed.ticketId = req[p].ticketId
          /\ \E o \in orders :
               /\ o.id = NewOrderId(p)
               /\ parsed.orderId = Decimal(o.id)
               /\ \E i \in ItemsOf(o.id) : i.ticketId = parsed.ticketId
C25_RoundTrip == C25_Decodes /\ C25_PurchaseCredential
\* an id that is a backslash and an id that is a quote went through the codec,
\* and a purchase has returned its credential
C25_Witness ==
  /\ cpc = "parsed" /\ cdata = ScanQR(cqr)
  /\ cids.ticketId = <<Backslash>>
  /\ cids.orderId = <<Quote>>
  /\ \E p \in Calls : result[p] = "ok"

\* ------------------------------------------------------ refreshAccessToken
\* what none of these steps touches
notRotation == <<ticket, orders, orderItems, ticketPurchases, rowLock, queueVars, callVars,
                 validateVars, promoVars, walletVars, refundVars, transferVars, codecVars>>

\* prisma.refreshToken.findUnique({ where: { token } })
FindRefreshToken(token) == {s \in refreshTokens : s.token = token}

\* if (!stored || stored.revoked || stored.expiresAt < new Date())
InvalidRefreshToken(found) ==
  \/ found = {}
  \/ \E s \in found : s.revoked \/ s.expiresAt < now

\* randomBytes(32).toString('hex'): a token no row has (one per call)
NewRefreshToken(x) == IssuedToken + x

\* findUnique, the validity check, generateAccessToken
RefreshFind(x) ==
  /\ xpc[x] = "idle"
  /\ \E token \in {NoToken} \cup {s.token : s \in refreshTokens} :
       /\ xtoken' = [xtoken EXCEPT ![x] = token]
       /\ IF InvalidRefreshToken(FindRefreshToken(token))
            THEN /\ xpc' = [xpc EXCEPT ![x] = "failed"]
                 /\ xresult' = [xresult EXCEPT ![x] = "Invalid or expired refresh token"]
            ELSE /\ xpc' = [xpc EXCEPT ![x] = "revoke"]
                 /\ UNCHANGED xresult
  /\ UNCHANGED <<refreshTokens, auditLog, now, notRotation>>

\* prisma.refreshToken.update({ where: { token }, data: { revoked: true } })
RefreshRevoke(x) ==
  /\ xpc[x] = "revoke"
  /\ refreshTokens' = {IF s.token = xtoken[x] THEN [s EXCEPT !.revoked = TRUE] ELSE s :
                         s \in refreshTokens}
  /\ xpc' = [xpc EXCEPT ![x] = "issue"]
  /\ UNCHANGED <<xtoken, xresult, auditLog, now, notRotation>>

\* generateRefreshToken(user.id): refreshToken.create and logAudit('REFRESH_TOKEN_ISSUED')
RefreshIssue(x) ==
  /\ xpc[x] = "issue"
  /\ refreshTokens' = refreshTokens \cup
       {[token |-> NewRefreshToken(x), expiresAt |-> now + RefreshTokenTtl, revoked |-> FALSE]}
  /\ \E ok \in BOOLEAN :
       LogAudit([action |-> "REFRESH_TOKEN_ISSUED", entity |-> "User",
                 ticketId |-> NoTicketId, orderId |-> NoOrder], ok)
  /\ xpc' = [xpc EXCEPT ![x] = "return"]
  /\ UNCHANGED <<xtoken, xresult, now, notRotation>>

\* logAudit('REFRESH_TOKEN_ROTATED') and the return of the new pair
RefreshReturn(x) ==
  /\ xpc[x] = "return"
  /\ \E ok \in BOOLEAN :
       LogAudit([action |-> "REFRESH_TOKEN_ROTATED", entity |-> "User",
                 ticketId |-> NoTicketId, orderId |-> NoOrder], ok)
  /\ xpc' = [xpc EXCEPT ![x] = "done"]
  /\ xresult' = [xresult EXCEPT ![x] = "ok"]
  /\ UNCHANGED <<refreshTokens, xtoken, now, notRotation>>

NextRotation ==
  \/ \E x \in Refreshes : RefreshFind(x)
  \/ \E x \in Refreshes : RefreshRevoke(x)
  \/ \E x \in Refreshes : RefreshIssue(x)
  \/ \E x \in Refreshes : RefreshReturn(x)
  \/ Tick

InitRefreshAccess == InitQuietStore /\ now = 0 /\ InitNoPromo /\ InitLogins /\ InitNoLifecycle

SpecRotation == InitRefreshAccess /\ [][NextRotation]_vars

\* C26: every refresh token is single-use: of the refreshAccessToken calls that
\* present the same token, one after the other or interleaved, at most one
\* succeeds.
C26_SingleUse ==
  \A x, y \in Refreshes :
    (x # y /\ xresult[x] = "ok" /\ xresult[y] = "ok") => xtoken[x] # xtoken[y]

\* ------------------------------------------------- purchase: conservation
\* the sum of the quantities of a set of order items
RECURSIVE SumQuantity(_)
SumQuantity(items) ==
  IF items = {} THEN 0
  ELSE LET i == CHOOSE i \in items : TRUE IN i.quantity + SumQuantity(items \ {i})
\* mapEventToFrontend: sold[cat] = ticket.totalQuantity - ticket.availableQuantity
Sold == ticket.totalQuantity - ticket.availableQuantity

\* C27: for a category created with availableQuantity = totalQuantity, in every
\* reachable state, whatever the interleaving of the purchaseTickets calls,
\* totalQuantity - availableQuantity is the sum of the quantities of the
\* committed order items of the category.
C27_Conservation ==
  available0 = ticket.totalQuantity =>
    Sold = SumQuantity({i \in orderItems : i.ticketId = T1})
\* two calls that ran together have both committed, for more units than the
\* category had
C27_Witness ==
  /\ available0 = ticket.totalQuantity
  /\ \E p, q \in Calls :
       /\ p # q /\ result[p] = "ok" /\ result[q] = "ok"
       /\ p \in overlapped /\ q \in overlapped
  /\ Sold > ticket.totalQuantity

\* --------------------------------------------- refund: order and request
\* C28: REFUNDED is a terminal order status: no step, a payment callback
\* included, changes the status of an order that is REFUNDED.
C28_Step ==
  \A o \in orders :
    o.status = "REFUNDED" =>
      \E after \in orders' : SameRow(after, o) /\ after.status = "REFUNDED"
C28_RefundedTerminal == [][C28_Step]_vars
\* requestRefund and reviewRefundRequest calls alone: no payment callback, no gate
NextReview ==
  \/ \E f \in Refunders : RequestFindOrder(f)
  \/ \E f \in Refunders : RequestFindExisting(f)
  \/ \E f \in Refunders : RequestCreate(f)
  \/ \E r \in Reviews : ReviewFind(r)
  \/ \E r \in Reviews : ReviewUpdateRequest(r)
  \/ \E r \in Reviews : ReviewUpdateOrder(r)
  \/ \E r \in Reviews : ReviewUpdatePurchases(r)
  \/ \E r \in Reviews : ReviewReturn(r)

SpecReview == InitRefund /\ [][NextReview]_vars

\* C29: a refund request is decided once and the order follows the decision:
\* no two reviewRefundRequest calls decide the same request, and once no review
\* is in flight the order of a request is REFUNDED exactly when the request's
\* status is APPROVED.
C29_DecidedOnce ==
  /\ \A r, s \in Reviews :
       (r # s /\ rresult[r] = "reviewed" /\ rresult[s] = "reviewed")
         => rreq[r].requestId # rreq[s].requestId
  /\ (\A r \in Reviews : rpc[r] \in {"idle", "done", "failed"}) =>
       \A q \in refundRequests : \A o \in FindOrder(q.orderId) :
         (o.status = "REFUNDED") <=> (q.status = "APPROVED")

\* ------------------------------------------------- transfer: used tickets
\* C30: a ticket that has been used never changes owner: no step, whatever the
\* interleaving of transferTicket and validateTicket, changes the userId of a
\* TicketPurchase whose status is USED.
C30_Step ==
  \A tp \in ticketPurchases :
    tp.status = "USED" =>
      \E after \in ticketPurchases' : SameRow(after, tp) /\ after.userId = tp.userId
C30_UsedKeepsOwner == [][C30_Step]_vars
====
